---- MODULE Spec2Model ----
(***************************************************************************)
(* A model of navidrome's library synchronization engine (scanner2):       *)
(* the per-folder diff and tag loading of processFolder, the fake and      *)
(* local storage ReadTags, and the media_file repository operations the    *)
(* scanner relies on (Put, MarkMissing, MarkMissingByFolder,               *)
(* GetMissingAndMatching).                                                  *)
(*                                                                         *)
(* Spec is the scanner over a small library, SpecBatch the tag loading of  *)
(* one large folder, SpecRepo the repository called on its own, SpecFolder *)
(* processFolder of one folder step by step over a file system that can    *)
(* fail or change under it, SpecPart the Participations map, SpecMap the  *)
(* mapper that builds it from a file's tags, and SpecPath the repository's *)
(* path-scoped queries over paths spelled out character by character.      *)
(*                                                                         *)
(* Time is a logical clock: a statement that stamps a row with time.Now()  *)
(* writes `now` and the clock then advances by one, so later stamps are    *)
(* strictly later.                                                         *)
(***************************************************************************)
EXTENDS Integers, Sequences, FiniteSets, TLC

\* ------------------------------------------------------------------ bounds
MaxScans == 3          \* scans started in one behaviour of Spec
MaxFsOps == 2          \* filesystem changes in one behaviour of Spec

\* --------------------------------------------------------------- constants
filesBatchSize == 100  \* batch size of the metadata extraction

LibID == 1             \* the scanned library of Spec (scanner_test.go: ID: 1)
Corrupt == "corrupt"   \* file contents no extractor can parse
Pids == {"p1", "p2"}   \* contents of well-formed files; the pid is derived from them
Folders == {".", "A"}  \* the library root and one sub-folder
NameSeq == <<"x.mp3", "y.mp3">>
Names == {NameSeq[i] : i \in DOMAIN NameSeq}

\* filepath.Join(entry.path, afPath) for a clean folder path and a file name
Join(dir, name) == IF dir = "." THEN name ELSE dir \o "/" \o name

\* the file paths of the library: two in the root, one in the sub-folder
Paths == {Join(".", n) : n \in Names} \cup {Join("A", "x.mp3")}

\* ------------------------------------------------------------- sequences
SeqToSet(s) == {s[i] : i \in DOMAIN s}

Reverse(s) == [i \in 1..Len(s) |-> s[Len(s) + 1 - i]]

Min(a, b) == IF a < b THEN a ELSE b

\* slice.RangeByChunks: the consecutive chunks of s, each of at most n elements
RECURSIVE Chunks(_, _)
Chunks(s, n) ==
    IF Len(s) = 0 THEN <<>>
    ELSE <<SubSeq(s, 1, Min(n, Len(s)))>> \o Chunks(SubSeq(s, Min(n, Len(s)) + 1, Len(s)), n)

\* ---------------------------------------------------------------- storage
MarkChunkSize == 200   \* ids per UPDATE statement of MarkMissing / MarkMissingByFolder
Libs == {1, 2}         \* library ids

\* FakeFS.ReadTags: parseFile of every path in turn; the first file that cannot be
\* read or parsed fails the whole call
ReadTags(paths, files) ==
    IF \E i \in DOMAIN paths : paths[i] \notin DOMAIN files \/ files[paths[i]].content = Corrupt
    THEN [err |-> TRUE, info |-> <<>>]
    ELSE [err |-> FALSE, info |-> [p \in SeqToSet(paths) |-> files[p]]]

\* the tags of a file: its title, which its contents decide, and a genre that
\* all the files share
TitleTag(content) == "Title of " \o content
TagID(name, value) == name \o "=" \o value
Tag(name, value) == [id |-> TagID(name, value), tag_name |-> name, tag_value |-> value]
FlattenAll(content) == <<Tag("title", TitleTag(content)), Tag("genre", "Rock")>>

\* metadata.New(path, info).ToMediaFile() with LibraryID and FolderID set by the
\* caller: the track keeps the path it was read from and has a pid, a title and
\* tags derived from its content
ToMediaFile(path, info, libId, folderId) ==
    [library_id |-> libId, folder_id |-> folderId, path |-> path, pid |-> info.content,
     title |-> TitleTag(info.content), tags |-> FlattenAll(info.content)]

\* putByMatch: the upsert by (path, library_id); an existing row keeps its id and
\* its created_at, a new row gets the id offered
PutByMatch(table, m, t, id) ==
    LET match == {r \in table : r.path = m.path /\ r.library_id = m.library_id}
        row(rid, created) ==
            [id |-> rid, library_id |-> m.library_id, folder_id |-> m.folder_id,
             path |-> m.path, pid |-> m.pid, title |-> m.title, missing |-> FALSE,
             updated_at |-> t, created_at |-> created]
    IN IF match = {}
       THEN table \cup {row(id, t)}
       ELSE (table \ match) \cup {row(r.id, r.created_at) : r \in match}

\* a Put that inserts without looking for the row of the same path and library
PutInsertOnly(table, m, t, id) ==
    table \cup {[id |-> id, library_id |-> m.library_id, folder_id |-> m.folder_id,
                 path |-> m.path, pid |-> m.pid, title |-> m.title, missing |-> FALSE,
                 updated_at |-> t, created_at |-> t]}

\* mediaFileRepository.Put: m.CreatedAt = time.Now(), then the upsert
Put(table, m, t, id) == PutByMatch(table, m, t, id)

\* GetByFolder: the rows of one folder
GetByFolder(table, folderId) == {r \in table : r.folder_id = folderId}

\* an UPDATE without the condition on the flag: every row of the chunk is stamped
MarkMissingChunkAnyFlag(table, missing, chunk, t) ==
    LET ids == SeqToSet(chunk)
    IN {IF r.id \in ids
        THEN [r EXCEPT !.missing = missing, !.updated_at = t] ELSE r : r \in table}

\* one UPDATE of MarkMissing: rows whose id is in the chunk and whose flag differs
MarkMissingChunk(table, missing, chunk, t) ==
    LET ids == SeqToSet(chunk)
    IN {IF r.id \in ids /\ r.missing = ~missing
        THEN [r EXCEPT !.missing = missing, !.updated_at = t] ELSE r : r \in table}

\* one UPDATE of MarkMissingByFolder: rows of the chunk's folders whose flag differs
MarkMissingByFolderChunk(table, missing, chunk, t) ==
    LET folderIDs == SeqToSet(chunk)
    IN {IF r.folder_id \in folderIDs /\ r.missing = ~missing
        THEN [r EXCEPT !.missing = missing, !.updated_at = t] ELSE r : r \in table}

\* mediaFileRepository.MarkMissing: one UPDATE per chunk of 200 ids, each stamped
\* with its own time.Now(); an UPDATE that changes no row returns the nil error
\* and the next chunk runs. The clock moves on when a statement stamped a row.
RECURSIVE MarkMissingChunks(_, _, _, _)
MarkMissingChunks(table, missing, chunks, t) ==
    IF chunks = <<>> THEN [db |-> table, now |-> t, err |-> "nil"]
    ELSE LET upd == MarkMissingChunk(table, missing, Head(chunks), t)
         IN MarkMissingChunks(upd, missing, Tail(chunks), IF upd # table THEN t + 1 ELSE t)

MarkMissing(table, missing, ids, t) ==
    MarkMissingChunks(table, missing, Chunks(ids, MarkChunkSize), t)

RECURSIVE MarkMissingByFolderChunks(_, _, _, _)
MarkMissingByFolderChunks(table, missing, chunks, t) ==
    IF chunks = <<>> THEN [db |-> table, now |-> t, err |-> "nil"]
    ELSE LET upd == MarkMissingByFolderChunk(table, missing, Head(chunks), t)
         IN MarkMissingByFolderChunks(upd, missing, Tail(chunks),
                                      IF upd # table THEN t + 1 ELSE t)

MarkMissingByFolder(table, missing, folderIDs, t) ==
    MarkMissingByFolderChunks(table, missing, Chunks(folderIDs, MarkChunkSize), t)

\* mediaFileRepository.GetMissingAndMatching: the rows whose pid is the pid of a
\* missing row of library libId and that are missing or were created after the
\* last_scan_started_at of their own library (the join on library)
GetMissingAndMatching(table, lss, libId) ==
    LET subQ == {r.pid : r \in {x \in table : x.missing /\ x.library_id = libId}}
    IN {r \in table : r.pid \in subQ /\ (r.missing \/ r.created_at > lss[r.library_id])}

\* ---------------------------------------------------------------- scanner
\* the ids of a set of rows as a list, by increasing id
RECURSIVE IdSeq(_)
IdSeq(rows) ==
    IF rows = {} THEN <<>>
    ELSE LET r == CHOOSE x \in rows : \A y \in rows : x.id <= y.id
         IN <<r.id>> \o IdSeq({y \in rows : y.id # r.id})

\* entry.audioFiles: the names of the audio files the walk lists in a folder
AudioFiles(folder, files) == {n \in Names : Join(folder, n) \in DOMAIN files}

\* loadTagsFromFiles, batch by batch: every batch asks the extractor for the tags
\* of toImport and appends one track per path of the answer; the first failing
\* batch ends the loop and the tracks collected so far are returned with the error.
\* calls lists the arguments of the ReadTags calls made. The answer is a map and
\* the range over it visits the paths (distinct, as the listing's names are) in an
\* order the runtime picks: the order of toImport, or with rev the opposite one.
RECURSIVE LoadChunks(_, _, _, _, _, _, _, _, _)
LoadChunks(chunks, toImport, files, libId, folderId, rev, tracks, uniqueTags, calls) ==
    IF chunks = <<>>
    THEN [tracks |-> tracks, uniqueTags |-> uniqueTags, err |-> FALSE, calls |-> calls]
    ELSE LET allInfo == ReadTags(toImport, files)
             keys == IF rev THEN Reverse(toImport) ELSE toImport
             read == [i \in 1..Len(keys) |->
                        ToMediaFile(keys[i], allInfo.info[keys[i]], libId, folderId)]
             readTags == UNION {SeqToSet(read[i].tags) : i \in DOMAIN read}
             readIds == {t.id : t \in readTags}
         IN IF allInfo.err
            THEN [tracks |-> tracks, uniqueTags |-> uniqueTags, err |-> TRUE,
                  calls |-> Append(calls, toImport)]
            ELSE LoadChunks(Tail(chunks), toImport, files, libId, folderId, rev,
                     tracks \o read,
                     [id \in (DOMAIN uniqueTags) \cup readIds |->
                         IF id \in readIds THEN CHOOSE t \in readTags : t.id = id
                         ELSE uniqueTags[id]],
                     Append(calls, toImport))

\* maps.Values: the values of the map, in an order the runtime picks
RECURSIVE Values(_, _)
Values(m, keys) ==
    IF keys = {} THEN <<>>
    ELSE LET k == CHOOSE x \in keys : TRUE IN <<m[k]>> \o Values(m, keys \ {k})

\* a loadTagsFromFiles that returns the tags of every track, one after the other
loadTagsFromFilesAllTags(toImport, files, libId, folderId, rev) ==
    LET res == LoadChunks(Chunks(toImport, filesBatchSize), toImport, files, libId,
                          folderId, rev, <<>>, <<>>, <<>>)
        perTrack == Len(FlattenAll("p1"))
    IN [tracks |-> res.tracks, err |-> res.err, calls |-> res.calls,
        tags |-> [i \in 1..(Len(res.tracks) * perTrack) |->
                    res.tracks[((i - 1) \div perTrack) + 1].tags[((i - 1) % perTrack) + 1]]]

loadTagsFromFiles(toImport, files, libId, folderId, rev) ==
    LET res == LoadChunks(Chunks(toImport, filesBatchSize), toImport, files, libId,
                          folderId, rev, <<>>, <<>>, <<>>)
        values == Values(res.uniqueTags, DOMAIN res.uniqueTags)
    IN [tracks |-> res.tracks, err |-> res.err, calls |-> res.calls,
        tags |-> IF rev THEN Reverse(values) ELSE values]

\* whether the diff of processFolder imports the file listed under name afPath
ToImport(folder, afPath, dbTracks, files, full) ==
    IF afPath \notin DOMAIN dbTracks \/ full THEN TRUE
    ELSE files[Join(folder, afPath)].modTime > dbTracks[afPath].updated_at

\* processFolder: the folder's rows keyed by their path, the diff against the
\* listing, and the tag loading of the files to import. The folder's id is its path.
\* The files are those of the FakeFS, whose Info() does not fail and which do not
\* change during the call; SpecFolder has the failing Info() and the changing files.
processFolder(folder, table, files, full, rev) ==
    LET mfs == GetByFolder(table, folder)
        dbTracks == [p \in {r.path : r \in mfs} |-> CHOOSE r \in mfs : r.path = p]
        audioFiles == AudioFiles(folder, files)
        importNames == SelectSeq(NameSeq, LAMBDA n :
                           n \in audioFiles /\ ToImport(folder, n, dbTracks, files, full))
        filesToImport == [i \in 1..Len(importNames) |-> Join(folder, importNames[i])]
        missingTracks == {dbTracks[k] : k \in (DOMAIN dbTracks) \ audioFiles}
        loaded == IF Len(filesToImport) > 0
                  THEN loadTagsFromFiles(filesToImport, files, LibID, folder, rev)
                  ELSE [tracks |-> <<>>, tags |-> <<>>, err |-> FALSE, calls |-> <<>>]
    IN [path |-> folder, audioFiles |-> audioFiles, mfs |-> mfs,
        filesToImport |-> filesToImport, missingTracks |-> missingTracks,
        tracks |-> loaded.tracks, tags |-> loaded.tags,
        loadErr |-> loaded.err, calls |-> loaded.calls]

\* the persist stage: Put of every track of the entry, in order
RECURSIVE PutAll(_, _, _, _)
PutAll(table, tracks, t, id) ==
    IF tracks = <<>> THEN [db |-> table, now |-> t, nextId |-> id]
    ELSE LET m == Head(tracks)
             fresh == ~\E r \in table : r.path = m.path /\ r.library_id = m.library_id
         IN PutAll(Put(table, m, t, id), Tail(tracks), t + 1, IF fresh THEN id + 1 ELSE id)

\* the persist stage of one folder entry: the tracks are saved, then the missing
\* tracks are marked missing
persistChanges(entry, table, t, id) ==
    LET put == PutAll(table, entry.tracks, t, id)
        mark == MarkMissing(put.db, TRUE, IdSeq(entry.missingTracks), put.now)
    IN [db |-> mark.db, now |-> mark.now, nextId |-> put.nextId]

\* the persist stage saves the folder of the unit: at most one row per library
\* and path
PutFolder(table, libId, path) ==
    IF \E r \in table : r.library_id = libId /\ r.path = path THEN table
    ELSE table \cup {[library_id |-> libId, path |-> path]}

\* the persist stage saves the tags of the unit; the tag table's constraint
\* tags_name_value_ux keeps out a row whose name and value the table holds
RECURSIVE PutTags(_, _)
PutTags(table, tags) ==
    IF tags = <<>> THEN table
    ELSE LET t == Head(tags)
             held == \E r \in table :
                         \/ r.tag_name = t.tag_name /\ r.tag_value = t.tag_value
                         \/ r.id = t.id
         IN PutTags(IF held THEN table ELSE table \cup {t}, Tail(tags))

\* the reconciliation pass: a missing row of the library with a candidate match
\* (a row of the same pid that is not missing) is retired
reconcile(table, lss, libId) ==
    LET res == GetMissingAndMatching(table, lss, libId)
        retired == {m \in res : m.missing /\ m.library_id = libId
                                /\ \E c \in res : ~c.missing /\ c.pid = m.pid}
    IN table \ retired

VARIABLES
    now,                \* the clock
    fsys,               \* the music filesystem: full path -> [content, modTime]
    stash,              \* files taken out of the library: full path -> [content, modTime]
    db,                 \* the media_file table: a set of rows
    nextId,             \* the next fresh media_file id
    lastScanStartedAt,  \* library.last_scan_started_at
    phase,              \* "idle" or "walk"
    fullRescan,         \* job.fullRescan of the running scan
    pending,            \* folders of the running scan not yet processed
    entries,            \* folder -> the folderEntry processFolder returned, until persisted
    scans,              \* scans started
    fsOps,              \* filesystem changes made
    dirty,              \* the filesystem changed since the last scan started
    cleanRescan,        \* the running scan started over a tree of well-formed files, unchanged
                        \* since the scan before, with every row's file on disk
    restored,           \* paths whose file came back while its row was flagged missing
    moved,              \* <<A, B>>: the last filesystem change moved an imported track from A to B
    batchToImport,      \* SpecBatch: the ordered list of files to import of one folder
    batchLoaded,        \* SpecBatch: what loadTagsFromFiles returned for batchToImport, or NotLoaded
    lastCall,           \* SpecRepo: the repository call made last
    lastErr,            \* SpecRepo: the error the last call returned
    lastChanged,        \* SpecRepo: the last call changed the table
    prevChanged,        \* SpecRepo: the call before the last changed the table
    repeats,            \* SpecRepo: the last call repeated the call before it
    found,              \* SpecRepo: the answer of the last GetMissingAndMatching, or NotAsked
    unit,               \* SpecFolder: the folder unit processFolder is working on
    folderTable,        \* the folder table: a set of rows
    tagTable,           \* the tag table: a set of rows
    partP,              \* SpecPart: a Participations, role -> list of artists
    partOp              \* SpecPart: the last operation on it, with what it was before

vars == <<now, fsys, stash, db, nextId, lastScanStartedAt, phase, fullRescan,
          pending, entries, scans, fsOps, dirty, cleanRescan, restored, moved,
          batchToImport, batchLoaded, lastCall, lastErr, lastChanged, prevChanged, repeats, found,
          unit, folderTable, tagTable, partP, partOp>>

batchVars == <<batchToImport, batchLoaded, unit>>
NoUnit == [pc |-> "none"]
repoVars == <<lastCall, lastErr, lastChanged, prevChanged, repeats, found>>
partVars == <<partP, partOp>>
NoOp == [op |-> "none"]
NotLoaded == [tracks |-> <<>>, tags |-> <<>>, err |-> FALSE, calls |-> <<>>, done |-> FALSE]
NoCall == [op |-> "none"]
NotAsked == [asked |-> FALSE]

\* ----------------------------------------------------------------- actions
\* the library before the first scan: one track in the root, one in the
\* sub-folder, of different contents, and an empty database
InitFiles == ("x.mp3" :> [content |-> "p1", modTime |-> 0])
             @@ ("A/x.mp3" :> [content |-> "p2", modTime |-> 0])

Init ==
    /\ now = 1
    /\ fsys = InitFiles
    /\ stash = <<>>
    /\ db = {}
    /\ nextId = 1
    /\ lastScanStartedAt = [l \in Libs |-> 0]
    /\ phase = "idle"
    /\ fullRescan = FALSE
    /\ pending = {}
    /\ entries = <<>>
    /\ scans = 0
    /\ fsOps = 0
    /\ dirty = FALSE
    /\ cleanRescan = FALSE
    /\ restored = {}
    /\ moved = <<>>
    /\ batchToImport = <<>>
    /\ batchLoaded = NotLoaded
    /\ lastCall = NoCall
    /\ lastErr = "nil"
    /\ lastChanged = FALSE
    /\ prevChanged = FALSE
    /\ repeats = FALSE
    /\ found = NotAsked
    /\ folderTable = {} /\ tagTable = {} /\ unit = NoUnit
    /\ partP = <<>> /\ partOp = NoOp

Without(f, k) == [x \in (DOMAIN f) \ {k} |-> f[x]]

scanVars == <<phase, fullRescan, pending, entries, scans, cleanRescan>>

\* FakeFS.Touch: the file's modification time becomes time.Now(). The clock is
\* ahead of every timestamp the scanner wrote, and advances when a scan starts.
Touch(p) ==
    /\ phase = "idle" /\ fsOps < MaxFsOps /\ scans < MaxScans
    /\ p \in DOMAIN fsys
    /\ fsys' = [fsys EXCEPT ![p].modTime = now]
    /\ fsOps' = fsOps + 1 /\ dirty' = TRUE
    /\ restored' = restored \ {p} /\ moved' = <<>>
    /\ UNCHANGED <<batchVars, repoVars, partVars, folderTable, tagTable>>
    /\ UNCHANGED <<now, stash, db, nextId, lastScanStartedAt, scanVars>>

\* the file is overwritten with contents the extractor cannot parse
CorruptFile(p) ==
    /\ phase = "idle" /\ fsOps < MaxFsOps /\ scans < MaxScans
    /\ p \in DOMAIN fsys /\ fsys[p].content # Corrupt
    /\ fsys' = [fsys EXCEPT ![p] = [content |-> Corrupt, modTime |-> now]]
    /\ fsOps' = fsOps + 1 /\ dirty' = TRUE
    /\ restored' = restored \ {p} /\ moved' = <<>>
    /\ UNCHANGED <<batchVars, repoVars, partVars, folderTable, tagTable>>
    /\ UNCHANGED <<now, stash, db, nextId, lastScanStartedAt, scanVars>>

\* the file is taken out of the library
RemoveFile(p) ==
    /\ phase = "idle" /\ fsOps < MaxFsOps /\ scans < MaxScans
    /\ p \in DOMAIN fsys
    /\ stash' = (p :> fsys[p]) @@ stash
    /\ fsys' = Without(fsys, p)
    /\ fsOps' = fsOps + 1 /\ dirty' = TRUE
    /\ restored' = restored \ {p} /\ moved' = <<>>
    /\ UNCHANGED <<batchVars, repoVars, partVars, folderTable, tagTable>>
    /\ UNCHANGED <<now, db, nextId, lastScanStartedAt, scanVars>>

\* the file taken out comes back at its path, with its contents and its
\* modification time
RestoreFile(p) ==
    /\ phase = "idle" /\ fsOps < MaxFsOps /\ scans < MaxScans
    /\ p \in DOMAIN stash /\ p \notin DOMAIN fsys
    /\ fsys' = (p :> stash[p]) @@ fsys
    /\ stash' = Without(stash, p)
    /\ fsOps' = fsOps + 1 /\ dirty' = TRUE
    /\ restored' = IF \E r \in db : r.path = p /\ r.missing /\ r.pid = stash[p].content
                   THEN restored \cup {p} ELSE restored \ {p}
    /\ moved' = <<>>
    /\ UNCHANGED <<batchVars, repoVars, partVars, folderTable, tagTable>>
    /\ UNCHANGED <<now, db, nextId, lastScanStartedAt, scanVars>>

\* the file at p is moved to the free path q, contents and modification time kept
MoveFile(p, q) ==
    /\ phase = "idle" /\ fsOps < MaxFsOps /\ scans < MaxScans
    /\ p \in DOMAIN fsys /\ q \in Paths \ DOMAIN fsys
    /\ fsys' = (q :> fsys[p]) @@ Without(fsys, p)
    /\ fsOps' = fsOps + 1 /\ dirty' = TRUE
    /\ restored' = restored \ {p, q}
    /\ moved' = IF \E r \in db : r.path = p /\ ~r.missing /\ r.pid = fsys[p].content
                THEN <<p, q>> ELSE <<>>
    /\ UNCHANGED <<batchVars, repoVars, partVars, folderTable, tagTable>>
    /\ UNCHANGED <<now, stash, db, nextId, lastScanStartedAt, scanVars>>

\* the library's last_scan_started_at when a scan starts: a time after every
\* stamp written so far and not after any written later. now is the stamp of the
\* next write and the column is only compared with "stamp > last_scan_started_at"
ScanStartedAt(t) == t - 1

\* RescanAll(full): the scan records its start and queues every folder
StartScan(full) ==
    /\ phase = "idle" /\ scans < MaxScans
    /\ phase' = "walk" /\ fullRescan' = full
    /\ pending' = Folders /\ entries' = <<>>
    /\ lastScanStartedAt' = [lastScanStartedAt EXCEPT ![LibID] = ScanStartedAt(now)]
    /\ scans' = scans + 1
    /\ cleanRescan' = ((scans >= 1) /\ ~dirty
                        /\ (\A p \in DOMAIN fsys : fsys[p].content # Corrupt)
                        /\ (\A r \in db : r.path \in DOMAIN fsys))
    /\ dirty' = FALSE
    /\ UNCHANGED <<batchVars, repoVars, partVars, folderTable, tagTable>>
    /\ UNCHANGED <<now, fsys, stash, db, nextId, fsOps, restored, moved>>

\* the processFolder stage of one folder unit
ProcessFolder(f) ==
    /\ phase = "walk" /\ f \in pending
    /\ \E rev \in BOOLEAN :
          entries' = (f :> processFolder(f, db, fsys, fullRescan, rev)) @@ entries
    /\ pending' = pending \ {f}
    /\ UNCHANGED <<batchVars, repoVars, partVars, folderTable, tagTable>>
    /\ UNCHANGED <<now, fsys, stash, db, nextId, lastScanStartedAt, phase, fullRescan,
                   scans, fsOps, dirty, cleanRescan, restored, moved>>

\* the persist stage of one folder unit
PersistFolder(f) ==
    /\ phase = "walk" /\ f \in DOMAIN entries
    /\ LET done == persistChanges(entries[f], db, now, nextId)
       IN db' = done.db /\ now' = done.now /\ nextId' = done.nextId
    /\ folderTable' = PutFolder(folderTable, LibID, f)
    /\ tagTable' = PutTags(tagTable, entries[f].tags)
    /\ entries' = Without(entries, f)
    /\ UNCHANGED <<batchVars, repoVars, partVars>>
    /\ UNCHANGED <<fsys, stash, lastScanStartedAt, phase, fullRescan, pending,
                   scans, fsOps, dirty, cleanRescan, restored, moved>>

\* the reconciliation pass, after every folder unit of the scan is done
Reconcile ==
    /\ phase = "walk" /\ pending = {} /\ DOMAIN entries = {}
    /\ db' = reconcile(db, lastScanStartedAt, LibID)
    /\ phase' = "idle" /\ fullRescan' = FALSE /\ cleanRescan' = FALSE
    /\ UNCHANGED <<batchVars, repoVars, partVars, folderTable, tagTable>>
    /\ UNCHANGED <<now, fsys, stash, nextId, lastScanStartedAt, pending,
                   entries, scans, fsOps, dirty, restored, moved>>

Next ==
    \/ \E p \in Paths : Touch(p)
    \/ \E p \in Paths : CorruptFile(p)
    \/ \E p \in Paths : RemoveFile(p)
    \/ \E p \in Paths : RestoreFile(p)
    \/ \E p \in Paths, q \in Paths : MoveFile(p, q)
    \/ \E full \in BOOLEAN : StartScan(full)
    \/ \E f \in Folders : ProcessFolder(f)
    \/ \E f \in Folders : PersistFolder(f)
    \/ Reconcile

Spec == Init /\ [][Next]_vars

\* ------------------------------------------------- loadTagsFromFiles at scale
MaxBatchFiles == 201   \* files to import of one folder in SpecBatch

\* the i-th file of a folder of many files
BatchPath(i) == ToString(i) \o ".mp3"

\* a root folder of n files, all to import (a first scan); bad = 0, or the
\* position of a file the extractor cannot parse
BatchInit ==
    /\ \E n \in 0..MaxBatchFiles : \E bad \in {0, 1, n} :
          /\ batchToImport = [i \in 1..n |-> BatchPath(i)]
          /\ fsys = [p \in {BatchPath(i) : i \in 1..n} |->
                       [content |-> IF bad > 0 /\ p = BatchPath(bad) THEN Corrupt ELSE "p1",
                        modTime |-> 0]]
    /\ batchLoaded = NotLoaded
    /\ now = 1 /\ stash = <<>> /\ db = {} /\ nextId = 1
    /\ lastScanStartedAt = [l \in Libs |-> 0]
    /\ phase = "idle" /\ fullRescan = FALSE /\ pending = {} /\ entries = <<>>
    /\ scans = 0 /\ fsOps = 0 /\ dirty = FALSE /\ cleanRescan = FALSE
    /\ restored = {} /\ moved = <<>>
    /\ lastCall = NoCall /\ lastErr = "nil" /\ lastChanged = FALSE
    /\ prevChanged = FALSE /\ repeats = FALSE /\ found = NotAsked
    /\ folderTable = {} /\ tagTable = {} /\ unit = NoUnit
    /\ partP = <<>> /\ partOp = NoOp

\* processFolder's call of loadTagsFromFiles for the folder's files to import
LoadTags ==
    /\ ~batchLoaded.done /\ Len(batchToImport) > 0
    /\ \E rev \in BOOLEAN :
          LET res == loadTagsFromFiles(batchToImport, fsys, LibID, ".", rev)
          IN batchLoaded' = [tracks |-> res.tracks, tags |-> res.tags, err |-> res.err,
                             calls |-> res.calls, done |-> TRUE]
    /\ UNCHANGED <<now, fsys, stash, db, nextId, lastScanStartedAt, phase, fullRescan,
                   pending, entries, scans, fsOps, dirty, cleanRescan, restored, moved,
                   batchToImport, unit, repoVars, partVars, folderTable, tagTable>>

BatchNext == LoadTags

SpecBatch == BatchInit /\ [][BatchNext]_vars

\* ------------------------------------------- one folder unit, step by step
MaxUnitFiles == 101    \* files of the folder of SpecFolder

\* the row of a file of the folder, saved at time 1 by an earlier scan
UnitRow(path, id) ==
    CHOOSE r \in Put({}, ToMediaFile(path, [content |-> "p1"], LibID, "."), 1, id) : TRUE

Gone == "gone.mp3"     \* a file that has a row and is not in the folder

\* a root folder of n files of which the first known have a row; one file may
\* have been modified after its row was saved, one may be unparseable, and a
\* row may be left of a file that is gone. The walk has listed the folder.
FolderInit ==
    /\ \E n \in {1, 2, MaxUnitFiles} : \E known \in {0, 1, n} : \E bad \in {0, n} :
       \E touched \in BOOLEAN, gone \in BOOLEAN :
          /\ fsys = [p \in {BatchPath(i) : i \in 1..n} |->
                       [content |-> IF bad > 0 /\ p = BatchPath(bad) THEN Corrupt ELSE "p1",
                        modTime |-> IF touched /\ p = BatchPath(1) THEN 2 ELSE 0]]
          /\ db = {UnitRow(BatchPath(i), i) : i \in 1..known}
                    \cup (IF gone THEN {UnitRow(Gone, n + 1)} ELSE {})
          /\ unit = [pc |-> "load", stages |-> <<>>,
                     audioFiles |-> [i \in 1..n |-> BatchPath(i)]]
    /\ fullRescan \in BOOLEAN
    /\ now = 3 /\ stash = <<>> /\ nextId = 1
    /\ lastScanStartedAt = [l \in Libs |-> 0]
    /\ phase = "walk" /\ pending = {} /\ entries = <<>>
    /\ scans = 0 /\ fsOps = 0 /\ dirty = FALSE /\ cleanRescan = FALSE
    /\ restored = {} /\ moved = <<>>
    /\ batchToImport = <<>> /\ batchLoaded = NotLoaded
    /\ lastCall = NoCall /\ lastErr = "nil" /\ lastChanged = FALSE
    /\ prevChanged = FALSE /\ repeats = FALSE /\ found = NotAsked
    /\ folderTable = {} /\ tagTable = {}
    /\ partP = <<>> /\ partOp = NoOp

notUnitVars == <<now, stash, db, nextId, lastScanStartedAt, phase, fullRescan, pending,
                 entries, scans, fsOps, dirty, cleanRescan, restored, moved,
                 batchToImport, batchLoaded, repoVars, partVars, folderTable, tagTable>>

\* "Load children mediafiles from DB"
LoadSnapshot ==
    /\ unit.pc = "load"
    /\ unit' = [pc |-> "diff", stages |-> Append(unit.stages, "load"),
                audioFiles |-> unit.audioFiles, mfs |-> GetByFolder(db, ".")]
    /\ UNCHANGED <<fsys, notUnitVars>>

\* what processFolder returns when af.Info() fails: no entry, and the error
Aborted(u, infoFails) ==
    [pc |-> "done", stages |-> Append(u.stages, "diff"), audioFiles |-> u.audioFiles,
     mfs |-> u.mfs, infoFails |-> infoFails, returned |-> "nil", err |-> TRUE]

\* the entry as it is after the diff
Diffed(u, filesToImport, missingTracks) ==
    [pc |-> "diffed", stages |-> Append(u.stages, "diff"), audioFiles |-> u.audioFiles,
     mfs |-> u.mfs, filesToImport |-> filesToImport, missingTracks |-> missingTracks,
     chunks |-> <<>>, loaded |-> <<>>, uniqueTags |-> <<>>, calls |-> 0, broke |-> FALSE,
     tracks |-> <<>>, tags |-> <<>>, albums |-> <<>>, artists |-> <<>>,
     loadErr |-> FALSE, returned |-> "none", err |-> FALSE]

\* "Get list of files to import, leave in dbTracks only tracks that are
\* missing". infoFails are the listed files whose Info() returns an error; rev
\* is the order in which the range visits the listing
Diff(infoFails, rev) ==
    /\ unit.pc = "diff"
    /\ \E dbTracks \in {[p \in {r.path : r \in unit.mfs} |->
                           CHOOSE r \in unit.mfs : r.path = p]} :
       \E names \in {IF rev THEN Reverse(unit.audioFiles) ELSE unit.audioFiles} :
          LET infoRead == {n \in SeqToSet(names) : n \in DOMAIN dbTracks /\ ~fullRescan}
              importNames == SelectSeq(names, LAMBDA n :
                                 ToImport(".", n, dbTracks, fsys, fullRescan))
          IN IF infoRead \cap infoFails # {}
             THEN unit' = Aborted(unit, infoFails)
             ELSE unit' = Diffed(unit,
                              [i \in 1..Len(importNames) |-> Join(".", importNames[i])],
                              {dbTracks[k] : k \in (DOMAIN dbTracks) \ SeqToSet(names)})
    /\ UNCHANGED <<fsys, notUnitVars>>

\* a processFolder that loads the tags whatever the diff found
NeedsLoadAlways(filesToImport) == TRUE

\* if len(filesToImport) > 0
NeedsLoad(filesToImport) == Len(filesToImport) > 0

\* after the diff: loadTagsFromFiles is called, or the entry is returned as it is
AfterDiff ==
    /\ unit.pc = "diffed"
    /\ IF NeedsLoad(unit.filesToImport)
       THEN unit' = [unit EXCEPT !.pc = "extract",
                                 !.stages = Append(unit.stages, "extract"),
                                 !.chunks = Chunks(unit.filesToImport, filesBatchSize)]
       ELSE unit' = [unit EXCEPT !.pc = "done", !.returned = "entry"]
    /\ UNCHANGED <<fsys, notUnitVars>>

\* one batch of loadTagsFromFiles. When it fails, loadTagsFromFiles returns what
\* it has with the error, processFolder assigns entry.tracks and entry.tags,
\* logs the error and returns the entry without error
ReadBatch(rev) ==
    /\ unit.pc = "extract" /\ unit.chunks # <<>>
    /\ LET res == LoadChunks(<<Head(unit.chunks)>>, unit.filesToImport, fsys, LibID, ".",
                             rev, unit.loaded, unit.uniqueTags, <<>>)
           values == Values(res.uniqueTags, DOMAIN res.uniqueTags)
       IN IF res.err
          THEN unit' = [unit EXCEPT !.pc = "done", !.calls = unit.calls + 1,
                                    !.chunks = <<>>, !.loaded = <<>>, !.uniqueTags = <<>>,
                                    !.tracks = res.tracks,
                                    !.tags = IF rev THEN Reverse(values) ELSE values,
                                    !.loadErr = TRUE, !.returned = "entry"]
          ELSE unit' = [unit EXCEPT !.calls = unit.calls + 1,
                                    !.chunks = Tail(unit.chunks),
                                    !.loaded = res.tracks, !.uniqueTags = res.uniqueTags]
    /\ UNCHANGED <<fsys, notUnitVars>>

\* loadTagsFromFiles returns without error: the tracks and tags are assigned,
\* the albums and artists are loaded (nothing, so far) and the entry is returned
EndLoad(rev) ==
    /\ unit.pc = "extract" /\ unit.chunks = <<>>
    /\ LET values == Values(unit.uniqueTags, DOMAIN unit.uniqueTags)
       IN unit' = [unit EXCEPT !.pc = "done", !.loaded = <<>>, !.uniqueTags = <<>>,
                               !.tracks = unit.loaded,
                               !.tags = IF rev THEN Reverse(values) ELSE values,
                               !.returned = "entry"]
    /\ UNCHANGED <<fsys, notUnitVars>>

\* between two batches a file to import becomes unreadable
BreakFile ==
    /\ unit.pc = "extract" /\ unit.calls >= 1 /\ unit.chunks # <<>> /\ ~unit.broke
    /\ fsys' = [fsys EXCEPT ![unit.filesToImport[1]].content = Corrupt]
    /\ unit' = [unit EXCEPT !.broke = TRUE]
    /\ UNCHANGED notUnitVars

FolderNext ==
    \/ LoadSnapshot
    \/ \E i \in {0, 1, Len(unit.audioFiles)}, rev \in BOOLEAN :
          Diff({unit.audioFiles[k] : k \in {i} \cap DOMAIN unit.audioFiles}, rev)
    \/ AfterDiff
    \/ \E rev \in BOOLEAN : ReadBatch(rev)
    \/ \E rev \in BOOLEAN : EndLoad(rev)
    \/ BreakFile

SpecFolder == FolderInit /\ [][FolderNext]_vars

\* ------------------------------------------------- the repository on its own
MaxTime == 5           \* the clock stops SpecRepo's writes at this time

scannerVars == <<fsys, stash, phase, fullRescan, pending, entries, scans, fsOps,
                 dirty, cleanRescan, restored, moved, folderTable, tagTable>>

\* the tracks the repository is asked to save, <<library, folder, file, pid>>: in
\* library 1 a track, and in the sub-folder either a copy of it or another track;
\* in library 2 a copy of the track of library 1
RepoFiles == {<<1, ".", "x.mp3", "p1">>, <<1, "A", "x.mp3", "p1">>,
              <<1, "A", "x.mp3", "p2">>, <<2, ".", "x.mp3", "p1">>}

\* the folder id of a folder of a library; library LibID's are the folder paths
FolderID(lib, f) == IF lib = LibID THEN f ELSE ToString(lib) \o ":" \o f

\* the history of the mark-missing calls: the call made last and its arguments,
\* what it returned, whether it changed the table, whether the call before it
\* was the same call with the same arguments, and whether that one changed the table
Called(call, err, table) ==
    /\ lastCall' = call
    /\ lastErr' = err
    /\ lastChanged' = (table # db)
    /\ repeats' = (call.op = lastCall.op /\ call = lastCall)
    /\ prevChanged' = (call.op = lastCall.op /\ call = lastCall /\ lastChanged)

\* a Put ends the history of mark-missing calls; fresh: no row had its path and library
CalledPut(fresh) ==
    /\ lastCall' = [op |-> "Put", fresh |-> fresh] /\ lastErr' = "nil"
    /\ lastChanged' = FALSE /\ repeats' = FALSE /\ prevChanged' = FALSE

\* any other call ends the history
CalledOther ==
    /\ lastCall' = NoCall /\ lastErr' = "nil"
    /\ lastChanged' = FALSE /\ repeats' = FALSE /\ prevChanged' = FALSE

\* Put of the track read from file n of folder f of library lib
DoPut(lib, f, n, pid) ==
    LET m == ToMediaFile(Join(f, n), [content |-> pid], lib, FolderID(lib, f))
        fresh == ~\E r \in db : r.path = m.path /\ r.library_id = m.library_id
        table == Put(db, m, now, nextId)
    IN /\ now < MaxTime /\ <<lib, f, n, pid>> \in RepoFiles
       /\ db' = table /\ now' = now + 1
       /\ nextId' = IF fresh THEN nextId + 1 ELSE nextId
       /\ CalledPut(fresh)
       /\ found' = NotAsked
       /\ UNCHANGED <<lastScanStartedAt, scannerVars, batchVars, partVars>>

\* a scan of the library starts: its last_scan_started_at is set
DoScanStarted ==
    /\ db # {}
    /\ lastScanStartedAt' = [lastScanStartedAt EXCEPT ![LibID] = ScanStartedAt(now)]
    /\ CalledOther
    /\ found' = NotAsked
    /\ UNCHANGED <<now, db, nextId, scannerVars, batchVars, partVars>>

\* a chunk's worth of ids of tracks, and of folders, that the table does not hold
NoSuchIds == [i \in 1..MarkChunkSize |-> Cardinality(RepoFiles) + i]
NoSuchFolders == [i \in 1..MarkChunkSize |-> "F" \o ToString(i)]

\* the list s with a chunk's worth of other identifiers after its first element:
\* more than one chunk long
Long(s, others) == <<Head(s)>> \o others \o Tail(s)

\* MarkMissing of the rows given, by increasing id; with long, their ids come
\* among ids of tracks the table does not hold
DoMarkMissing(missing, rows, long) ==
    LET ids == IF long THEN Long(IdSeq(rows), NoSuchIds) ELSE IdSeq(rows)
        res == MarkMissing(db, missing, ids, now)
    IN /\ rows # {} /\ res.now <= MaxTime
       /\ db' = res.db /\ now' = res.now
       /\ Called([op |-> "MarkMissing", missing |-> missing,
                  ids |-> {r.id : r \in rows}, long |-> long], res.err, res.db)
       /\ found' = NotAsked
       /\ UNCHANGED <<nextId, lastScanStartedAt, scannerVars, batchVars, partVars>>

\* MarkMissingByFolder of the folders given; with long, they come among folders
\* the table holds no track of
DoMarkMissingByFolder(missing, folders, long) ==
    LET folderIDs == IF long THEN Long(folders, NoSuchFolders) ELSE folders
        res == MarkMissingByFolder(db, missing, folderIDs, now)
    IN /\ db # {} /\ res.now <= MaxTime
       /\ db' = res.db /\ now' = res.now
       /\ Called([op |-> "MarkMissingByFolder", missing |-> missing,
                  folders |-> folders, long |-> long], res.err, res.db)
       /\ found' = NotAsked
       /\ UNCHANGED <<nextId, lastScanStartedAt, scannerVars, batchVars, partVars>>

DoGetMissingAndMatching(libId) ==
    /\ ~found.asked /\ db # {}
    /\ found' = [asked |-> TRUE, libId |-> libId,
                 rows |-> GetMissingAndMatching(db, lastScanStartedAt, libId)]
    /\ CalledOther
    /\ UNCHANGED <<now, db, nextId, lastScanStartedAt, scannerVars, batchVars, partVars>>

RepoNext ==
    \/ \E lib \in Libs, f \in Folders, n \in Names, pid \in Pids : DoPut(lib, f, n, pid)
    \/ DoScanStarted
    \/ \E missing \in BOOLEAN :
          \/ \E r \in db : DoMarkMissing(missing, {r}, FALSE)
          \/ DoMarkMissing(missing, db, TRUE)
    \/ \E missing \in BOOLEAN : DoMarkMissingByFolder(missing, <<".", "A">>, TRUE)
    \/ \E lib \in Libs : DoGetMissingAndMatching(lib)

SpecRepo == Init /\ [][RepoNext]_vars

\* ------------------------------------------------------------- Participations
MaxArtists == 2        \* artists in the argument list of one Add

\* two of the roles, and artists of which two have the same identifier
Roles == {"artist", "composer"}
Artists == {[id |-> "a1", name |-> "Ann"], [id |-> "a1", name |-> "ANN"],
            [id |-> "b2", name |-> "Bob"]}
ArtistLists == UNION {[1..n -> Artists] : n \in 0..MaxArtists}

\* the loop of Add over its arguments: an artist whose id was not seen is appended
\* and its id is seen from then on
RECURSIVE AddAll(_, _)
AddAll(list, artists) ==
    IF artists = <<>> THEN list
    ELSE LET artist == Head(artists)
         IN IF \E i \in DOMAIN list : list[i].id = artist.id
            THEN AddAll(list, Tail(artists))
            ELSE AddAll(Append(list, artist), Tail(artists))

\* the list of a role, empty for a role the map does not hold
RoleList(p, role) == IF role \in DOMAIN p THEN p[role] ELSE <<>>
WithRole(p, role, list) ==
    [r \in (DOMAIN p) \cup {role} |-> IF r = role THEN list ELSE p[r]]

\* an Add that assigns the role's list instead of appending to it
AddAssign(p, role, artists) ==
    IF artists = <<>> THEN p ELSE WithRole(p, role, AddAll(<<>>, artists))

\* an Add that appends every argument, seen or not
AddNoSeen(p, role, artists) ==
    IF artists = <<>> THEN p ELSE WithRole(p, role, RoleList(p, role) \o artists)

\* an Add that does not record the ids it appends as seen
AddSeenOnce(p, role, artists) ==
    LET old == RoleList(p, role)
        new == old \o SelectSeq(artists,
                   LAMBDA artist : ~\E i \in DOMAIN old : old[i].id = artist.id)
    IN IF new = old THEN p ELSE WithRole(p, role, new)

\* Participations.Add: p[role] is assigned only when an artist is appended
Add(p, role, artists) ==
    LET old == RoleList(p, role)
        new == AddAll(old, artists)
    IN IF new = old THEN p ELSE WithRole(p, role, new)

\* Participations.Merge: Add of every role of other. The range over the map
\* visits the roles in any order; Adds to different roles do not affect each other
RECURSIVE MergeRoles(_, _, _)
MergeRoles(p, other, roles) ==
    IF roles = {} THEN p
    ELSE LET role == CHOOSE r \in roles : TRUE
         IN MergeRoles(Add(p, role, other[role]), other, roles \ {role})

Merge(p, other) == MergeRoles(p, other, DOMAIN other)

notPartVars == <<now, db, nextId, lastScanStartedAt, scannerVars, batchVars, repoVars>>

\* the Participations a Merge is given: the maps from some roles to non-empty
\* lists of artists of different ids, which are the ones Add builds
ArtistIds == {a.id : a \in Artists}
DupFreeLists ==
    {l \in UNION {[1..n -> Artists] : n \in 1..Cardinality(ArtistIds)} :
        \A i \in DOMAIN l : \A j \in DOMAIN l : l[i].id = l[j].id => i = j}
AllParticipations == UNION {[rs -> DupFreeLists] : rs \in SUBSET Roles}

\* p.Add(role, artists...)
DoAdd(role, artists) ==
    /\ partP' = Add(partP, role, artists)
    /\ partOp' = [op |-> "Add", role |-> role, artists |-> artists, before |-> partP]
    /\ UNCHANGED notPartVars

\* p.Merge(other); other may be p itself or an equal copy
DoMerge(other) ==
    /\ partP' = Merge(partP, other)
    /\ partOp' = [op |-> "Merge", before |-> partP, other |-> other]
    /\ UNCHANGED notPartVars

PartNext ==
    \/ \E role \in Roles, artists \in ArtistLists : DoAdd(role, artists)
    \/ \E other \in AllParticipations : DoMerge(other)

SpecPart == Init /\ [][PartNext]_vars

\* ------------------------------------------------------------ the tag mapper
MaxTagValues == 2      \* values of an artist or album-artist tag

UnknownArtist == "Unknown Artist"
ArtistNames == {"Ann", "ANN", UnknownArtist}

\* the tags the mapper reads for the roles: TrackArtist and AlbumArtist with up
\* to MaxTagValues values, their plural forms and Composer with at most one
TagValues == UNION {[1..n -> ArtistNames] : n \in 0..MaxTagValues}
FewTagValues == {<<>>} \cup {<<name>> : name \in ArtistNames}
RawTags ==
    [artist : TagValues, artists : FewTagValues,
     albumartist : TagValues, albumartists : FewTagValues,
     composer : {<<>>, <<"Ann">>}]

\* the artist identifier, derived from the normalized name
artistID(name) == IF name \in {"Ann", "ANN"} THEN "a1" ELSE "u0"

\* the values of the first of the tags that has any
RECURSIVE getTags(_, _)
getTags(tags, tagNames) ==
    IF tagNames = <<>> THEN <<>>
    ELSE IF tags[Head(tagNames)] # <<>> THEN tags[Head(tagNames)]
    ELSE getTags(tags, Tail(tagNames))

\* one Artist per name, in order
parseArtist(names) ==
    [i \in DOMAIN names |-> [id |-> artistID(names[i]), name |-> names[i]]]

\* a parseArtists without the substitute for a tag that is not there
parseArtistsNoSentinel(tags, name, names) == parseArtist(getTags(tags, <<names, name>>))

parseArtists(tags, name, names) ==
    LET nameValues == getTags(tags, <<names, name>>)
    IN parseArtist(IF Len(nameValues) = 0 THEN <<UnknownArtist>> ELSE nameValues)

\* for _, a := range artists { participations.Add(role, a) }
RECURSIVE AddEach(_, _, _)
AddEach(p, role, artists) ==
    IF artists = <<>> THEN p
    ELSE AddEach(Add(p, role, <<Head(artists)>>), role, Tail(artists))

mapParticipations(tags) ==
    LET artists == parseArtists(tags, "artist", "artists")
        parsed == parseArtists(tags, "albumartist", "albumartists")
        albumArtists == IF Len(parsed) = 1 /\ parsed[1].name = UnknownArtist
                        THEN artists ELSE parsed
        withArtists == AddEach(<<>>, "artist", artists)
        withAlbumArtists == AddEach(withArtists, "album_artist", albumArtists)
    IN AddEach(withAlbumArtists, "composer", parseArtist(getTags(tags, <<"composer">>)))

\* a file whose tags were read and are still to be mapped
MapInit ==
    /\ partOp \in {[op |-> "tags", tags |-> tags] : tags \in RawTags}
    /\ partP = <<>> /\ folderTable = {} /\ tagTable = {} /\ unit = NoUnit
    /\ now = 1 /\ fsys = InitFiles /\ stash = <<>> /\ db = {} /\ nextId = 1
    /\ lastScanStartedAt = [l \in Libs |-> 0]
    /\ phase = "idle" /\ fullRescan = FALSE /\ pending = {} /\ entries = <<>>
    /\ scans = 0 /\ fsOps = 0 /\ dirty = FALSE /\ cleanRescan = FALSE
    /\ restored = {} /\ moved = <<>>
    /\ batchToImport = <<>> /\ batchLoaded = NotLoaded
    /\ lastCall = NoCall /\ lastErr = "nil" /\ lastChanged = FALSE
    /\ prevChanged = FALSE /\ repeats = FALSE /\ found = NotAsked

\* the mapper builds the Participations of the file from its tags
DoMap ==
    /\ partOp.op = "tags"
    /\ partP' = mapParticipations(partOp.tags)
    /\ partOp' = [op |-> "Map", tags |-> partOp.tags]
    /\ UNCHANGED notPartVars

MapNext == DoMap

SpecMap == MapInit /\ [][MapNext]_vars

\* ------------------------------------------------- the path-scoped queries
MaxPathRows == 3       \* tracks saved in one behaviour of SpecPath

\* a path is the sequence of its characters
Sep == "/"             \* os.PathSeparator

\* the paths of the files saved: under /m/a, under its sub-directory b, under
\* the sibling ab, in the parent /m (one with a name that starts with a), in
\* the root, and one relative path of a file name alone
FilePaths ==
    {<<"/", "m", "/", "a", "/", "x">>,
     <<"/", "m", "/", "a", "/", "y">>,
     <<"/", "m", "/", "a", "/", "b", "/", "x">>,
     <<"/", "m", "/", "a", "b", "/", "x">>,
     <<"/", "m", "/", "x">>,
     <<"/", "m", "/", "a", "x">>,
     <<"/", "x">>,
     <<"x">>}

\* the base paths asked for, as given, each with the directory it names
BasePaths ==
    {[given |-> <<"/", "m", "/", "a">>,                dir |-> <<"/", "m", "/", "a">>],
     [given |-> <<"/", "m", "/", "a", "/">>,           dir |-> <<"/", "m", "/", "a">>],
     [given |-> <<"/", "m", "/", "/", "a">>,           dir |-> <<"/", "m", "/", "a">>],
     [given |-> <<"/", "m", "/", "a", "/", ".">>,      dir |-> <<"/", "m", "/", "a">>],
     [given |-> <<"/", "m", "/", "a", "/", "b">>,      dir |-> <<"/", "m", "/", "a", "/", "b">>],
     [given |-> <<"/", "m", "/", "a", "b">>,           dir |-> <<"/", "m", "/", "a", "b">>],
     [given |-> <<"/", "m", "/", "x", "/", ".", ".">>, dir |-> <<"/", "m">>],
     [given |-> <<"/", "m">>,                          dir |-> <<"/", "m">>],
     [given |-> <<"/">>,                               dir |-> <<"/">>],
     [given |-> <<".">>,                               dir |-> <<".">>],
     [given |-> <<>>,                                  dir |-> <<".">>]}

\* the elements of a path between its separators
RECURSIVE Split(_, _)
Split(path, element) ==
    IF path = <<>> THEN <<element>>
    ELSE IF Head(path) = Sep THEN <<element>> \o Split(Tail(path), <<>>)
    ELSE Split(Tail(path), Append(element, Head(path)))

\* filepath.Clean on the elements: empty and "." elements are dropped, ".."
\* removes the element before it, and at the root is dropped
RECURSIVE CleanElements(_, _, _)
CleanElements(elements, kept, rooted) ==
    IF elements = <<>> THEN kept
    ELSE LET e == Head(elements)
             rest == Tail(elements)
         IN IF e = <<>> \/ e = <<".">> THEN CleanElements(rest, kept, rooted)
            ELSE IF e = <<".", ".">>
            THEN IF kept # <<>> /\ kept[Len(kept)] # <<".", ".">>
                 THEN CleanElements(rest, SubSeq(kept, 1, Len(kept) - 1), rooted)
                 ELSE IF rooted THEN CleanElements(rest, kept, rooted)
                 ELSE CleanElements(rest, Append(kept, e), rooted)
            ELSE CleanElements(rest, Append(kept, e), rooted)

RECURSIVE JoinElements(_)
JoinElements(elements) ==
    IF Len(elements) = 1 THEN elements[1]
    ELSE elements[1] \o <<Sep>> \o JoinElements(Tail(elements))

\* filepath.Clean
Clean(path) ==
    LET rooted == path # <<>> /\ path[1] = Sep
        kept == CleanElements(Split(path, <<>>), <<>>, rooted)
    IN IF kept = <<>> THEN (IF rooted THEN <<Sep>> ELSE <<".">>)
       ELSE (IF rooted THEN <<Sep>> ELSE <<>>) \o JoinElements(kept)

\* cleanPath: the cleaned path, with a separator at its end
cleanPath(path) ==
    LET cleaned == Clean(path)
    IN IF cleaned[Len(cleaned)] # Sep THEN Append(cleaned, Sep) ELSE cleaned

\* SQL substr(x, from, len) and substr(x, from), characters counted from 1
Substr(x, from, len) == [i \in 1..(Min(from + len - 1, Len(x)) - from + 1) |-> x[from + i - 1]]
SubstrFrom(x, from) == Substr(x, from, Len(x))

\* pathStartsWith: substr(path, 1, <length of prefix>) = prefix
pathStartsWith(rowPath, prefix) == Substr(rowPath, 1, Len(prefix)) = prefix

\* x GLOB '*<separator>*'
GlobHasSeparator(x) == \E i \in DOMAIN x : x[i] = Sep

\* an item that starts one character later
ItemOneFurther(rowPath, pathLen) == SubstrFrom(rowPath, pathLen + 3)

\* substr(path, pathLen+2): what follows the prefix and one more character
Item(rowPath, pathLen) == SubstrFrom(rowPath, pathLen + 2)

\* FindAllByPath: sel0 takes the rows under the prefix, sel those whose item
\* holds no separator
FindAllByPath(table, basePath) ==
    LET path == cleanPath(basePath)
        pathLen == Len(path)
        sel0 == {r \in table : pathStartsWith(r.path, path)}
    IN {r \in sel0 : ~GlobHasSeparator(Item(r.path, pathLen))}

\* DeleteByPath: the rows deleted, which executeSQL counts
DeleteByPath(table, basePath) ==
    LET path == cleanPath(basePath)
        pathLen == Len(path)
    IN {r \in table : pathStartsWith(r.path, path)
                      /\ ~GlobHasSeparator(Item(r.path, pathLen))}

pathRestVars == <<lastScanStartedAt, scannerVars, batchVars, partVars,
                  lastErr, lastChanged, prevChanged, repeats>>

\* the track of a file is saved
DoPutPath(filePath) ==
    /\ nextId <= MaxPathRows
    /\ ~\E r \in db : r.path = filePath
    /\ db' = Put(db, ToMediaFile(filePath, [content |-> "p1"], LibID, "."), now, nextId)
    /\ now' = now + 1 /\ nextId' = nextId + 1
    /\ lastCall' = NoCall /\ found' = NotAsked
    /\ UNCHANGED pathRestVars

DoFindAllByPath(base) ==
    /\ lastCall' = [op |-> "FindAllByPath", base |-> base]
    /\ found' = [asked |-> TRUE, rows |-> FindAllByPath(db, base.given)]
    /\ UNCHANGED <<now, db, nextId, pathRestVars>>

DoDeleteByPath(base) ==
    /\ db # {}
    /\ LET deleted == DeleteByPath(db, base.given)
       IN /\ db' = db \ deleted
          /\ lastCall' = [op |-> "DeleteByPath", base |-> base, before |-> db,
                          count |-> Cardinality(deleted)]
    /\ found' = NotAsked
    /\ UNCHANGED <<now, nextId, pathRestVars>>

PathNext ==
    \/ \E filePath \in FilePaths : DoPutPath(filePath)
    \/ \E base \in BasePaths : DoFindAllByPath(base)
    \/ \E base \in BasePaths : DoDeleteByPath(base)

SpecPath == Init /\ [][PathNext]_vars

\* ------------------------------------------------------------------ claims
\* the rows of an entry's snapshot that the file at fullPath corresponds to
RowsAt(entry, fullPath) == {r \in entry.mfs : r.path = fullPath}

\* C1: processFolder imports a listed file if and only if no row of the folder
\* has the file's path, or the file was modified after its row's updated_at, or
\* the full-rescan flag is set; an unchanged, already imported file is not
\* imported again, in folders at any depth.
C1_ImportIffNewChangedOrFull ==
    \A f \in DOMAIN entries :
        \A n \in entries[f].audioFiles :
            LET fullPath == Join(f, n) IN
            (fullPath \in SeqToSet(entries[f].filesToImport))
              <=> \/ RowsAt(entries[f], fullPath) = {}
                  \/ \E r \in RowsAt(entries[f], fullPath) : fsys[fullPath].modTime > r.updated_at
                  \/ fullRescan

\* C2: after the diff, entry.missingTracks is exactly the set of the folder's
\* rows whose file is not in the folder's listing.
C2_MissingTracksAreTheAbsentRows ==
    \A f \in DOMAIN entries :
        entries[f].missingTracks =
            {r \in entries[f].mfs : \A n \in entries[f].audioFiles : r.path # Join(f, n)}

\* C3: loadTagsFromFiles hands the extractor consecutive batches of at most
\* filesBatchSize paths: when no file fails, every call receives at most
\* filesBatchSize paths, every path to import is passed exactly once, and the
\* tracks returned are exactly one MediaFile per path.
C3_BatchesOfAtMostFilesBatchSize ==
    (batchLoaded.done /\ ~batchLoaded.err) =>
        LET calls == batchLoaded.calls
            passes(p) == {<<c, j>> \in (DOMAIN calls) \X (1..Len(batchToImport)) :
                             j <= Len(calls[c]) /\ calls[c][j] = p}
        IN /\ \A c \in DOMAIN calls : Len(calls[c]) <= filesBatchSize
           /\ \A i \in DOMAIN batchToImport :
                  Cardinality(passes(batchToImport[i])) = 1
           /\ Len(batchLoaded.tracks) = Len(batchToImport)
           /\ {batchLoaded.tracks[i].path : i \in DOMAIN batchLoaded.tracks}
                  = SeqToSet(batchToImport)

\* C4: when the extractor fails for exactly one of the files to import of a
\* folder, the other files are still extracted and carried forward as tracks.
C4_OtherFilesStillImported ==
    \A f \in DOMAIN entries :
        LET toImport == SeqToSet(entries[f].filesToImport)
            failing == {p \in toImport : fsys[p].content = Corrupt}
        IN Cardinality(failing) = 1
             => {entries[f].tracks[i].path : i \in DOMAIN entries[f].tracks} = toImport \ failing

\* C5: a non-full rescan over an imported tree unchanged since the scan before
\* finds, in every folder, nothing to import and nothing missing, and calls no
\* extractor.
C5_CleanRescanFindsNothing ==
    (cleanRescan /\ ~fullRescan) =>
        \A f \in DOMAIN entries :
            /\ entries[f].filesToImport = <<>>
            /\ entries[f].missingTracks = {}
            /\ entries[f].calls = <<>>

\* a scan has run to its end over the filesystem as it is now
ScanDone == phase = "idle" /\ scans >= 1 /\ ~dirty

\* C6: after a rescan the rows of removed files are flagged missing, and after
\* the files are restored (same paths, original modification times) and the
\* library is rescanned, each restored path has exactly one row and that row is
\* not flagged missing.
C6_MissingRestoreCycle ==
    ScanDone =>
        /\ \A r \in db : r.path \notin DOMAIN fsys => r.missing
        /\ \A p \in restored :
               /\ Cardinality({r \in db : r.library_id = LibID /\ r.path = p}) = 1
               /\ \A r \in db : r.path = p => ~r.missing

\* C7: after a track imported at path A was moved to path B and the library was
\* rescanned and reconciled, exactly one row of the track's pid is not missing,
\* it is at B, and no row of the track remains at A.
C7_MoveDetected ==
    (ScanDone /\ moved # <<>>) =>
        LET A == moved[1]
            B == moved[2]
            pid == fsys[B].content
        IN (\A q \in DOMAIN fsys : fsys[q].content = pid => q = B) =>
             /\ {r.path : r \in {x \in db : x.pid = pid /\ ~x.missing}} = {B}
             /\ Cardinality({r \in db : r.pid = pid /\ ~r.missing}) = 1
             /\ ~\E r \in db : r.path = A /\ r.pid = pid

\* C8: GetMissingAndMatching(lib) returns, of the rows of the library, exactly the
\* rows flagged missing and the rows that share the pid of a missing row of the
\* library and were created or updated after the library's last_scan_started_at.
C8_ReturnsCreatedOrUpdatedMatches ==
    found.asked =>
        LET lib == found.libId
            lss == lastScanStartedAt[lib]
            missingPids == {r.pid : r \in {x \in db : x.library_id = lib /\ x.missing}}
        IN \A r \in db : r.library_id = lib =>
               (r \in found.rows
                  <=> \/ r.missing
                      \/ r.pid \in missingPids /\ (r.created_at > lss \/ r.updated_at > lss))

\* C9: every row GetMissingAndMatching(libId) returns is a row of library libId.
C9_ScopedToLibrary ==
    found.asked => \A r \in found.rows : r.library_id = found.libId

\* C10: a MarkMissing or MarkMissingByFolder call made right after the same call
\* with the same arguments returns no error and changes no row, updated_at
\* included; the first call returns no error either.
C10_MarkMissingIdempotent ==
    lastCall.op \in {"MarkMissing", "MarkMissingByFolder"} =>
        /\ lastErr = "nil"
        /\ repeats => ~lastChanged

\* C10's case: a MarkMissing call of more than one chunk of ids, with rows of the
\* table in both chunks, changed rows and was made again
C10_RetryOfLongList ==
    /\ lastCall.op = "MarkMissing" /\ repeats /\ prevChanged
    /\ lastCall.long /\ Cardinality(lastCall.ids) >= 2

\* C11: the media_file table never holds two rows of the same library and path,
\* and a Put of a MediaFile whose library and path match a row updates that row,
\* which keeps its id, instead of inserting a second one.
C11_OneRowPerLibraryAndPath ==
    /\ [](\A r1 \in db : \A r2 \in db :
             (r1.library_id = r2.library_id /\ r1.path = r2.path) => r1 = r2)
    /\ [][\A r \in db : \A r2 \in db' :
             (r.library_id = r2.library_id /\ r.path = r2.path) => r2.id = r.id]_vars

\* C11's case: a Put of a path and library that had a row, while the other
\* library holds a row of the same path
C11_PutOfExistingPath ==
    /\ lastCall.op = "Put" /\ ~lastCall.fresh
    /\ \E r1 \in db : \E r2 \in db : r1.path = r2.path /\ r1.library_id # r2.library_id

\* the artist identifiers of a role
IdsOf(p, role) == {RoleList(p, role)[i].id : i \in DOMAIN RoleList(p, role)}

\* C12 as stated: merging is commutative, merge(P1,P2) == merge(P2,P1), each
\* role mapping to an ordered sequence of artists.
C12_MergeCommutes ==
    partOp.op = "Merge" => partP = Merge(partOp.other, partOp.before)

\* C12 as amended: merging is commutative up to the order and the spelling of
\* the artists: merge(P1,P2) and merge(P2,P1) have the same roles and, in every
\* role, the same set of artist identifiers.
C12_MergeCommutesUpToOrder ==
    partOp.op = "Merge" =>
        LET swapped == Merge(partOp.other, partOp.before)
        IN /\ DOMAIN partP = DOMAIN swapped
           /\ \A role \in DOMAIN partP : IdsOf(partP, role) = IdsOf(swapped, role)

\* C12's case: a Merge of two Participations that hold different artists in a
\* role of both, so that the two orders of merging give different sequences
C12_MergeOfDifferentLists ==
    /\ partOp.op = "Merge"
    /\ \E role \in (DOMAIN partOp.before) \cap (DOMAIN partOp.other) :
           IdsOf(partOp.before, role) # IdsOf(partOp.other, role)
    /\ partP # Merge(partOp.other, partOp.before)

\* C13: merging a Participations into an equal copy of itself leaves it as it
\* was: the same roles, and in every role the same artists in the same order.
C13_MergeIdempotent ==
    (partOp.op = "Merge" /\ partOp.other = partOp.before) => partP = partOp.before

\* C13's case: a Participations with two roles, one of them with two artists,
\* was merged with an equal copy
C13_MergeOfEqualCopy ==
    /\ partOp.op = "Merge" /\ partOp.other = partOp.before
    /\ DOMAIN partOp.before = Roles
    /\ \E role \in Roles : Len(partOp.before[role]) >= 2

\* C14: after any sequence of Add and Merge no role holds two artists of the
\* same identifier; an Add appends to its role, in argument order, the
\* arguments whose identifier is neither in the role nor earlier in the
\* arguments, keeps what the role held in its order, and leaves every other
\* role as it was.
C14_NoDuplicateWithinRole ==
    /\ \A role \in DOMAIN partP : \A i \in DOMAIN partP[role] : \A j \in DOMAIN partP[role] :
           partP[role][i].id = partP[role][j].id => i = j
    /\ partOp.op = "Add" =>
           LET old == RoleList(partOp.before, partOp.role)
               args == partOp.artists
               fresh(k) == /\ args[k].id \notin IdsOf(partOp.before, partOp.role)
                           /\ \A j \in 1..(k - 1) : args[j].id # args[k].id
               kept == {k \in DOMAIN args : fresh(k)}
               new == RoleList(partP, partOp.role)
           IN /\ Len(new) = Len(old) + Cardinality(kept)
              /\ \A i \in DOMAIN old : new[i] = old[i]
              /\ \A i \in (Len(old) + 1)..Len(new) :
                     \E k \in kept : /\ new[i] = args[k]
                                     /\ Cardinality({j \in kept : j < k}) = i - Len(old) - 1
              /\ \A role \in Roles \ {partOp.role} :
                     /\ role \in DOMAIN partP <=> role \in DOMAIN partOp.before
                     /\ RoleList(partP, role) = RoleList(partOp.before, role)

\* C14's case: an Add to a role that held an artist, with an argument list that
\* names the held identifier and twice a new one, while the other role is held
C14_AddWithRepeats ==
    /\ partOp.op = "Add"
    /\ RoleList(partOp.before, partOp.role) # <<>>
    /\ DOMAIN partOp.before = Roles
    /\ Len(partOp.artists) >= 2
    /\ partOp.artists[1].id = partOp.artists[2].id
    /\ partOp.artists[1] # partOp.artists[2]
    /\ Len(RoleList(partP, partOp.role)) = Len(RoleList(partOp.before, partOp.role)) + 1

\* the values of the track-artist and of the album-artist tag of the last mapping
TrackArtistValues == getTags(partOp.tags, <<"artists", "artist">>)
AlbumArtistValues == getTags(partOp.tags, <<"albumartists", "albumartist">>)
BuiltFrom(role, values) ==
    /\ IdsOf(partP, role) = {artistID(values[i]) : i \in DOMAIN values}
    /\ \A i \in DOMAIN RoleList(partP, role) :
           \E j \in DOMAIN values : RoleList(partP, role)[i].name = values[j]
    /\ RoleList(partP, role)[1].name = values[1]

\* what C15 and its amendment share: both roles are non-empty, the artist role
\* is the single Unknown Artist when there is no track-artist tag, and the
\* album_artist role equals the artist role when there is no album-artist tag
C15Defaults ==
    /\ RoleList(partP, "artist") # <<>>
    /\ RoleList(partP, "album_artist") # <<>>
    /\ TrackArtistValues = <<>> =>
           partP["artist"] = <<[id |-> artistID(UnknownArtist), name |-> UnknownArtist]>>
    /\ AlbumArtistValues = <<>> => partP["album_artist"] = partP["artist"]

\* C15 as stated: the defaults above, and when an album-artist tag is present
\* the album_artist role is built from it.
C15_MissingArtistPolicy ==
    partOp.op = "Map" =>
        /\ C15Defaults
        /\ AlbumArtistValues # <<>> => BuiltFrom("album_artist", AlbumArtistValues)

\* C15 as amended: the defaults above; an album-artist tag whose only value is
\* "Unknown Artist" counts as absent (the album_artist role equals the artist
\* role); any other album-artist tag is what the album_artist role is built from.
C15_MissingArtistPolicyBySentinel ==
    partOp.op = "Map" =>
        /\ C15Defaults
        /\ AlbumArtistValues = <<UnknownArtist>> => partP["album_artist"] = partP["artist"]
        /\ AlbumArtistValues \notin {<<>>, <<UnknownArtist>>} =>
               BuiltFrom("album_artist", AlbumArtistValues)

\* C15's case: a file with a track artist and an album-artist tag of the single
\* value "Unknown Artist" was mapped, and its album artist is the track artist
C15_UnknownAlbumArtistTag ==
    /\ partOp.op = "Map"
    /\ AlbumArtistValues = <<UnknownArtist>>
    /\ TrackArtistValues = <<"Ann">>
    /\ partP["album_artist"] = partP["artist"]
    /\ partP["artist"][1].name = "Ann"

\* C16: when the first scan, a full one over an empty database, ends, the
\* folder table holds exactly one row per directory of the tree, the root
\* included, and the media_file table exactly one row, not missing and with
\* the title of the file's tags, per audio file of the tree, and no other row.
C16_FirstFullScanImportsAll ==
    [][(phase = "walk" /\ phase' = "idle" /\ scans = 1 /\ fullRescan) =>
          /\ \A f \in Folders :
                 Cardinality({r \in folderTable' : r.library_id = LibID /\ r.path = f}) = 1
          /\ Cardinality(folderTable') = Cardinality(Folders)
          /\ \A p \in DOMAIN fsys : fsys[p].content # Corrupt =>
                 /\ Cardinality({r \in db' : r.path = p}) = 1
                 /\ \A r \in db' : r.path = p =>
                        ~r.missing /\ r.title = TitleTag(fsys[p].content)
          /\ \A r \in db' : r.path \in DOMAIN fsys]_vars

\* the tags the tracks of a folder unit carry
TrackTags(e) == UNION {SeqToSet(e.tracks[i].tags) : i \in DOMAIN e.tracks}

\* C17: the tag table never holds two rows of the same name and value; in a
\* folder unit two tracks that carry the same name and value carry the same Tag
\* identifier, and the tag list loadTagsFromFiles returned holds every tag the
\* unit's tracks carry and no two entries of the same identifier.
C17_TagDedup ==
    /\ \A t1 \in tagTable : \A t2 \in tagTable :
           (t1.tag_name = t2.tag_name /\ t1.tag_value = t2.tag_value) => t1 = t2
    /\ \A f \in DOMAIN entries :
           /\ \A i \in DOMAIN entries[f].tags : \A j \in DOMAIN entries[f].tags :
                  entries[f].tags[i].id = entries[f].tags[j].id => i = j
           /\ \A t1 \in TrackTags(entries[f]) : \A t2 \in TrackTags(entries[f]) :
                  (t1.tag_name = t2.tag_name /\ t1.tag_value = t2.tag_value) => t1.id = t2.id
           /\ {t.id : t \in TrackTags(entries[f])} = {t.id : t \in SeqToSet(entries[f].tags)}

\* C17's case: a folder unit of two tracks that share a tag and differ in
\* another, while the tag table already holds the shared tag
C17_TracksShareTag ==
    \E f \in DOMAIN entries :
        /\ Len(entries[f].tracks) >= 2
        /\ \E i \in DOMAIN entries[f].tracks : \E j \in DOMAIN entries[f].tracks :
               /\ i # j
               /\ entries[f].tracks[i].tags # entries[f].tracks[j].tags
               /\ SeqToSet(entries[f].tracks[i].tags) \cap SeqToSet(entries[f].tracks[j].tags) # {}
        /\ \E t \in tagTable : t \in SeqToSet(entries[f].tags)

\* whether a row of the folder unit's snapshot has the path
UnitHasRow(path) == \E r \in unit.mfs : r.path = path
UnitChanged(path) == \E r \in unit.mfs : r.path = path /\ fsys[path].modTime > r.updated_at

\* C18: when reading the info of a file fails during the diff of a folder, the
\* error is returned for the folder and the folder's entry still classifies
\* the other files: those that are new or changed (or all, in a full scan) are
\* to import, and the rows without a file are listed as missing.
C18_InfoFailureAbortsFileOnly ==
    (unit.pc = "done" /\ unit.err) =>
        /\ unit.returned = "entry"
        /\ \A i \in DOMAIN unit.audioFiles :
               unit.audioFiles[i] \notin unit.infoFails =>
                   ((fullRescan \/ ~UnitHasRow(unit.audioFiles[i])
                        \/ UnitChanged(unit.audioFiles[i]))
                    <=> unit.audioFiles[i] \in SeqToSet(unit.filesToImport))
        /\ unit.missingTracks = {r \in unit.mfs : r.path \notin SeqToSet(unit.audioFiles)}

\* C19: when loadTagsFromFiles returns an error, after earlier batches
\* succeeded or not, the entry processFolder returns carries no tracks and no
\* tags, and it is returned without error, so that the walk goes on.
C19_FailedLoadLeavesUnitEmpty ==
    (unit.pc = "done" /\ unit.returned = "entry" /\ unit.loadErr) =>
        /\ unit.tracks = <<>>
        /\ unit.tags = <<>>
        /\ ~unit.err

\* C20: the stages of a folder unit run in the order load, diff, extract; the
\* extractor is called only in the extract stage, and when the diff finds no
\* file to import the entry is returned without the extract stage, without a
\* call of the extractor and with no tracks, tags, albums or artists.
C20_NoExtractWithoutImports ==
    /\ unit.stages \in {<<>>, <<"load">>, <<"load", "diff">>, <<"load", "diff", "extract">>}
    /\ (unit.pc \in {"diffed", "extract", "done"} /\ unit.returned # "nil") =>
           /\ unit.calls > 0 => unit.stages = <<"load", "diff", "extract">>
           /\ (unit.pc = "done" /\ unit.filesToImport = <<>>) =>
                  /\ unit.stages = <<"load", "diff">>
                  /\ unit.calls = 0
                  /\ unit.tracks = <<>> /\ unit.tags = <<>>
                  /\ unit.albums = <<>> /\ unit.artists = <<>>

\* C20's case: an unchanged folder of more files than one batch, each with its
\* row, went through processFolder and nothing was to import
C20_UnchangedFolder ==
    /\ unit.pc = "done" /\ unit.returned = "entry"
    /\ unit.filesToImport = <<>>
    /\ Len(unit.audioFiles) > filesBatchSize
    /\ \A i \in DOMAIN unit.audioFiles : UnitHasRow(unit.audioFiles[i])

\* the rows whose path is the directory, a separator (unless the directory is
\* the root, which ends in one) and a file name without a separator
DirectChildren(table, dir) ==
    LET prefix == IF dir[Len(dir)] = Sep THEN dir ELSE Append(dir, Sep)
    IN {r \in table :
           /\ Len(r.path) > Len(prefix)
           /\ \A i \in DOMAIN prefix : r.path[i] = prefix[i]
           /\ \A i \in (Len(prefix) + 1)..Len(r.path) : r.path[i] # Sep}

\* C21: FindAllByPath(P) returns exactly the rows whose file is directly in the
\* directory P, and DeleteByPath(P) deletes exactly those rows and reports how
\* many; rows of sub-directories of P, of other directories and of a sibling
\* whose name starts with P's name are neither returned nor deleted.
C21_DirectChildrenOnly ==
    /\ lastCall.op = "FindAllByPath" =>
           found.rows = DirectChildren(db, lastCall.base.dir)
    /\ lastCall.op = "DeleteByPath" =>
           /\ db = lastCall.before \ DirectChildren(lastCall.before, lastCall.base.dir)
           /\ lastCall.count = Cardinality(DirectChildren(lastCall.before, lastCall.base.dir))

\* C21's case: DeleteByPath of /m/a, given with a separator at its end, on a
\* table with a row directly in it, one in its sub-directory and one in the
\* sibling /m/ab, deleted the first row only
C21_DeleteAmongSiblings ==
    /\ lastCall.op = "DeleteByPath"
    /\ lastCall.base.given = <<"/", "m", "/", "a", "/">>
    /\ lastCall.count = 1
    /\ \E r \in db : r.path = <<"/", "m", "/", "a", "/", "b", "/", "x">>
    /\ \E r \in db : r.path = <<"/", "m", "/", "a", "b", "/", "x">>

====
